---- MODULE Spec2Model ----
(***************************************************************************)
(* Model of libuv's timer subsystem (src/timer.c): uv_timer_init,          *)
(* uv_timer_start, uv_timer_stop, uv_timer_again, uv_timer_set_repeat,     *)
(* uv_timer_get_repeat, uv__next_timeout, uv__run_timers and               *)
(* uv__timer_close, over a loop with a timer heap, a clock and a start     *)
(* counter.  uint64_t arithmetic is kept, at a reduced width: every        *)
(* uint64_t value lives in 0..UINT64_MAX and sums wrap modulo UINT64_MAX+1.*)
(*                                                                         *)
(* Spec      two handles, API calls from outside the loop and from timer   *)
(*           callbacks, a bounded number of timer starts.                  *)
(* SpecOrder three handles, callbacks that leave the timers alone, with    *)
(*           the history of the callbacks a run fired.                     *)
(* LiveSpec  one handle, no bound on the starts (the counter wraps as in   *)
(*           the code), weak fairness of the steps of uv__run_timers.      *)
(* SpecReentrant  two handles, callbacks that start and stop timers, with  *)
(*           the history of the fired callbacks and of their calls.        *)
(* SpecRepeat     two handles, the repeat read and written from anywhere.  *)
(* SpecFair  two handles, no bound on the starts, a loop that keeps        *)
(*           updating its clock and calling uv__run_timers.                *)
(***************************************************************************)
EXTENDS Integers, Sequences, FiniteSets, Bags, TLC

\* ------------------------------------------------------------------ bounds

\* (uint64_t) -1 at the reduced width.
UINT64_MAX == 3

\* INT_MAX at the reduced width (smaller than UINT64_MAX, as in C).
INT_MAX == 2

UV_EINVAL == -22

\* Spec stops starting timers once loop->timer_counter reaches this value.
MaxCounter == 3

\* The fired-callback history keeps at most this many entries.
MaxLog == 3

\* The timer handles of the program; Spec uses the first two, LiveSpec one.
Handles == {"A", "B", "C"}
Handles2 == {"A", "B"}
Handles1 == {"A"}

\* The callback a program passes to uv_timer_start; NULL is no callback.
NULL == "NULL"
Callbacks == {"cb1"}

\* The timeouts and repeat intervals a program passes.
Timeouts == {0, 1, UINT64_MAX}
Repeats == {0, 1}

\* The argument lists of the uv_timer_start calls a program makes.
StartArgs ==
  [cb : Callbacks, t : Timeouts, r : Repeats]
    \cup {[cb |-> NULL, t |-> 1, r |-> 1]}

\* heap_min() of an empty heap.
NoNode == "none"

U64 == 0..UINT64_MAX

\* ------------------------------------------------------------------ state

VARIABLES
  time,           \* loop->time
  timer_counter,  \* loop->timer_counter
  timer_heap,     \* loop->timer_heap: a bag of handles (the linked heap nodes)
  hstate,         \* per handle: "uninit", "open" or "closing" (handle flags)
  active,         \* per handle: UV__HANDLE_ACTIVE
  timer_cb,       \* per handle: handle->timer_cb
  timeout,        \* per handle: handle->timeout, the absolute deadline
  repeat,         \* per handle: handle->repeat
  start_id,       \* per handle: handle->start_id
  pc,             \* "idle", "loop" (inside uv__run_timers), "callback"
  cur,            \* the handle whose callback is running, or NoNode
  log,            \* callbacks fired by the current uv__run_timers call
  last            \* the API call just made: operation, return value

vars == <<time, timer_counter, timer_heap, hstate, active, timer_cb, timeout,
          repeat, start_id, pc, cur, log, last>>

\* The loop and its handles as one value, for the operations below.
St == [time |-> time, timer_counter |-> timer_counter, timer_heap |-> timer_heap,
       hstate |-> hstate, active |-> active, timer_cb |-> timer_cb,
       timeout |-> timeout, repeat |-> repeat, start_id |-> start_id]

\* ------------------------------------------------------------------ heap and handle primitives

uv__is_active(s, h) == s.active[h]

uv__is_closing(s, h) == s.hstate[h] = "closing"

uv__handle_start(s, h) == [s EXCEPT !.active[h] = TRUE]

uv__handle_stop(s, h) == [s EXCEPT !.active[h] = FALSE]

HeapNodes(s) == BagToSet(s.timer_heap)

\* Mutant: the tie on equal timeouts compares the start_ids the wrong way round.
timer_less_than_swapped(s, a, b) ==
  IF s.timeout[a] < s.timeout[b] THEN TRUE
  ELSE IF s.timeout[b] < s.timeout[a] THEN FALSE
  ELSE s.start_id[b] < s.start_id[a]

timer_less_than(s, a, b) ==
  IF s.timeout[a] < s.timeout[b] THEN TRUE
  ELSE IF s.timeout[b] < s.timeout[a] THEN FALSE
  ELSE s.start_id[a] < s.start_id[b]

heap_insert(s, h) == [s EXCEPT !.timer_heap = @ (+) SetToBag({h})]

heap_remove(s, h) == [s EXCEPT !.timer_heap = @ (-) SetToBag({h})]

heap_min(s) ==
  IF HeapNodes(s) = {} THEN NoNode
  ELSE CHOOSE n \in HeapNodes(s) :
         \A m \in HeapNodes(s) \ {n} : ~timer_less_than(s, m, n)

\* ------------------------------------------------------------------ timer operations

uv_timer_init(s, h) ==
  [s EXCEPT !.hstate[h] = "open", !.active[h] = FALSE,
            !.timer_cb[h] = NULL, !.repeat[h] = 0]

\* Mutant: the node leaves the heap but the handle stays active.
uv_timer_stop_noflag(s, h) ==
  IF ~uv__is_active(s, h) THEN [st |-> s, ret |-> 0]
  ELSE [st |-> heap_remove(s, h), ret |-> 0]

\* Mutant: stopping a timer that is not running is reported as an error.
uv_timer_stop_strict(s, h) ==
  IF ~uv__is_active(s, h) THEN [st |-> s, ret |-> UV_EINVAL]
  ELSE [st |-> uv__handle_stop(heap_remove(s, h), h), ret |-> 0]

uv_timer_stop(s, h) ==
  IF ~uv__is_active(s, h) THEN [st |-> s, ret |-> 0]
  ELSE [st |-> uv__handle_stop(heap_remove(s, h), h), ret |-> 0]

\* Mutant: the wrapped sum is kept as the deadline.
ClampedTimeout_wrapped(now, t) == (now + t) % (UINT64_MAX + 1)

\* handle->loop->time + timeout, clamped to (uint64_t) -1 when the sum wrapped.
ClampedTimeout(now, t) ==
  LET clamped_timeout == (now + t) % (UINT64_MAX + 1)
  IN  IF clamped_timeout < t THEN UINT64_MAX ELSE clamped_timeout

\* Mutant: an active handle is stopped before the arguments are checked.
uv_timer_start_stopfirst(s, h, cb, t, r) ==
  LET s1 == IF uv__is_active(s, h) THEN uv_timer_stop(s, h).st ELSE s
  IN  IF uv__is_closing(s1, h) \/ cb = NULL THEN [st |-> s1, ret |-> UV_EINVAL]
      ELSE
        LET s2 == [s1 EXCEPT !.timer_cb[h] = cb,
                             !.timeout[h] = ClampedTimeout(s1.time, t),
                             !.repeat[h] = r,
                             !.start_id[h] = s1.timer_counter,
                             !.timer_counter = (@ + 1) % (UINT64_MAX + 1)]
        IN  [st |-> uv__handle_start(heap_insert(s2, h), h), ret |-> 0]

\* Mutant: an active handle is inserted again without being stopped first.
uv_timer_start_nostop(s, h, cb, t, r) ==
  IF uv__is_closing(s, h) \/ cb = NULL THEN [st |-> s, ret |-> UV_EINVAL]
  ELSE
    LET s2 == [s EXCEPT !.timer_cb[h] = cb,
                        !.timeout[h] = ClampedTimeout(s.time, t),
                        !.repeat[h] = r,
                        !.start_id[h] = s.timer_counter,
                        !.timer_counter = (@ + 1) % (UINT64_MAX + 1)]
    IN  [st |-> uv__handle_start(heap_insert(s2, h), h), ret |-> 0]

\* Mutant: the start_id is taken from the counter, which is not incremented.
uv_timer_start_noincr(s, h, cb, t, r) ==
  IF uv__is_closing(s, h) \/ cb = NULL THEN [st |-> s, ret |-> UV_EINVAL]
  ELSE
    LET s1 == IF uv__is_active(s, h) THEN uv_timer_stop(s, h).st ELSE s
        s2 == [s1 EXCEPT !.timer_cb[h] = cb,
                         !.timeout[h] = ClampedTimeout(s1.time, t),
                         !.repeat[h] = r,
                         !.start_id[h] = s1.timer_counter]
    IN  [st |-> uv__handle_start(heap_insert(s2, h), h), ret |-> 0]

\* Mutant: a closing handle is started like any other.
uv_timer_start_noclosing(s, h, cb, t, r) ==
  IF cb = NULL THEN [st |-> s, ret |-> UV_EINVAL]
  ELSE
    LET s1 == IF uv__is_active(s, h) THEN uv_timer_stop(s, h).st ELSE s
        s2 == [s1 EXCEPT !.timer_cb[h] = cb,
                         !.timeout[h] = ClampedTimeout(s1.time, t),
                         !.repeat[h] = r,
                         !.start_id[h] = s1.timer_counter,
                         !.timer_counter = (@ + 1) % (UINT64_MAX + 1)]
    IN  [st |-> uv__handle_start(heap_insert(s2, h), h), ret |-> 0]

uv_timer_start(s, h, cb, t, r) ==
  IF uv__is_closing(s, h) \/ cb = NULL THEN [st |-> s, ret |-> UV_EINVAL]
  ELSE
    LET s1 == IF uv__is_active(s, h) THEN uv_timer_stop(s, h).st ELSE s
        s2 == [s1 EXCEPT !.timer_cb[h] = cb,
                         !.timeout[h] = ClampedTimeout(s1.time, t),
                         !.repeat[h] = r,
                         !.start_id[h] = s1.timer_counter,
                         !.timer_counter = (@ + 1) % (UINT64_MAX + 1)]
    IN  [st |-> uv__handle_start(heap_insert(s2, h), h), ret |-> 0]

\* Mutant: the next deadline is counted from the previous deadline.
uv_timer_again_drift(s, h) ==
  IF s.timer_cb[h] = NULL \/ s.repeat[h] = 0 THEN [st |-> s, ret |-> UV_EINVAL]
  ELSE LET s1 == uv_timer_start(s, h, s.timer_cb[h], s.repeat[h], s.repeat[h]).st
       IN  [st |-> [s1 EXCEPT !.timeout[h] =
                      IF s.timeout[h] + s.repeat[h] > UINT64_MAX THEN UINT64_MAX
                      ELSE s.timeout[h] + s.repeat[h]],
            ret |-> 0]

\* Mutant: a handle with a zero repeat is restarted all the same.
uv_timer_again_norepeatcheck(s, h) ==
  IF s.timer_cb[h] = NULL THEN [st |-> s, ret |-> UV_EINVAL]
  ELSE [st |-> uv_timer_start(s, h, s.timer_cb[h], s.repeat[h], s.repeat[h]).st,
        ret |-> 0]

uv_timer_again(s, h) ==
  IF s.timer_cb[h] = NULL \/ s.repeat[h] = 0 THEN [st |-> s, ret |-> UV_EINVAL]
  ELSE [st |-> uv_timer_start(s, h, s.timer_cb[h], s.repeat[h], s.repeat[h]).st,
        ret |-> 0]

\* Mutant: a repeat of 0 also cancels the timer.
uv_timer_set_repeat_cancel(s, h, r) ==
  IF r = 0 THEN uv_timer_stop([s EXCEPT !.repeat[h] = r], h).st
  ELSE [s EXCEPT !.repeat[h] = r]

uv_timer_set_repeat(s, h, r) == [s EXCEPT !.repeat[h] = r]

uv_timer_get_repeat(s, h) == s.repeat[h]

\* Mutant: the difference is returned without the clamp to INT_MAX.
uv__next_timeout_noclamp(s) ==
  LET heap_node == heap_min(s)
  IN  IF heap_node = NoNode THEN -1
      ELSE IF s.timeout[heap_node] <= s.time THEN 0
      ELSE s.timeout[heap_node] - s.time

uv__next_timeout(s) ==
  LET heap_node == heap_min(s)
  IN  IF heap_node = NoNode THEN -1
      ELSE IF s.timeout[heap_node] <= s.time THEN 0
      ELSE LET diff == s.timeout[heap_node] - s.time
           IN  IF diff > INT_MAX THEN INT_MAX ELSE diff

uv__timer_close(s, h) == uv_timer_stop(s, h).st

\* uv_close() of a timer: the handle becomes closing, then uv__timer_close().
uv_close(s, h) == uv__timer_close([s EXCEPT !.hstate[h] = "closing"], h)

\* Mutant: a timer is due only at the tick of its deadline, not after it.
RunTimersDue_exact(s) ==
  LET heap_node == heap_min(s)
  IN  IF heap_node = NoNode THEN NoNode
      ELSE IF s.timeout[heap_node] # s.time THEN NoNode
      ELSE heap_node

\* Mutant: a timer whose deadline is loop->time exactly is not yet due.
RunTimersDue_strict(s) ==
  LET heap_node == heap_min(s)
  IN  IF heap_node = NoNode THEN NoNode
      ELSE IF s.timeout[heap_node] >= s.time THEN NoNode
      ELSE heap_node

\* Mutant: the loop forgets to test whether the minimum is due.
RunTimersDue_nocheck(s) == heap_min(s)

\* Mutant: the loop walks the timers it saw due, stopped ones included.
RunTimersDue_stale(s) ==
  LET seen == {h \in DOMAIN s.timer_cb :
                 s.timer_cb[h] # NULL /\ s.timeout[h] <= s.time}
  IN  IF seen = {} THEN NoNode
      ELSE CHOOSE n \in seen : \A m \in seen \ {n} : ~timer_less_than(s, m, n)

\* One iteration of the for (;;) of uv__run_timers: the handle to fire, or
\* NoNode when the loop breaks.
RunTimersDue(s) ==
  LET heap_node == heap_min(s)
  IN  IF heap_node = NoNode THEN NoNode
      ELSE IF s.timeout[heap_node] > s.time THEN NoNode
      ELSE heap_node

\* Mutant: the fired timer is restarted whatever its repeat.
RunTimersRearm_always(s, h) ==
  LET s1 == uv_timer_stop(s, h).st
  IN  uv_timer_start(s1, h, s1.timer_cb[h], s1.repeat[h], s1.repeat[h]).st

\* Mutant: the timer is re-armed first and stopped afterwards.
RunTimersRearm_againfirst(s, h) == uv_timer_stop(uv_timer_again(s, h).st, h).st

\* uv_timer_stop(handle); uv_timer_again(handle); of that iteration.
RunTimersRearm(s, h) == uv_timer_again(uv_timer_stop(s, h).st, h).st

\* ------------------------------------------------------------------ actions

Set(s) ==
  /\ time' = s.time
  /\ timer_counter' = s.timer_counter
  /\ timer_heap' = s.timer_heap
  /\ hstate' = s.hstate
  /\ active' = s.active
  /\ timer_cb' = s.timer_cb
  /\ timeout' = s.timeout
  /\ repeat' = s.repeat
  /\ start_id' = s.start_id

\* The program calls the API from outside the loop or from a timer callback.
Api(h) == pc \in {"idle", "callback"} /\ hstate[h] # "uninit"

\* No API call was made since the loop last moved.
NoCall == [op |-> "none", ret |-> 0, was |-> FALSE]

\* was: the handle was active when uv_timer_start was called.
Called(op, h, ret) ==
  /\ last' = [op |-> op, ret |-> ret, was |-> (op = "start" /\ active[h])]
  /\ UNCHANGED <<pc, cur, log>>

TimerInit(h) ==
  /\ pc \in {"idle", "callback"}
  /\ hstate[h] = "uninit"
  /\ Set(uv_timer_init(St, h))
  /\ Called("init", h, 0)

TimerStart(h, cb, t, r) ==
  /\ Api(h)
  /\ LET res == uv_timer_start(St, h, cb, t, r)
     IN  Set(res.st) /\ Called("start", h, res.ret)

TimerStop(h) ==
  /\ Api(h)
  /\ LET res == uv_timer_stop(St, h)
     IN  Set(res.st) /\ Called("stop", h, res.ret)

TimerAgain(h) ==
  /\ Api(h)
  /\ LET res == uv_timer_again(St, h)
     IN  Set(res.st) /\ Called("again", h, res.ret)

TimerSetRepeat(h, r) ==
  /\ Api(h)
  /\ Set(uv_timer_set_repeat(St, h, r))
  /\ Called("set_repeat", h, 0)

TimerGetRepeat(h) ==
  /\ Api(h)
  /\ UNCHANGED <<time, timer_counter, timer_heap, hstate, active, timer_cb,
                 timeout, repeat, start_id>>
  /\ Called("get_repeat", h, uv_timer_get_repeat(St, h))

TimerClose(h) ==
  /\ Api(h)
  /\ hstate[h] = "open"
  /\ Set(uv_close(St, h))
  /\ Called("close", h, 0)

\* The loop asks for its poll timeout: uv__next_timeout().
NextTimeout ==
  /\ pc = "idle"
  /\ last' = [op |-> "next_timeout", ret |-> uv__next_timeout(St), was |-> FALSE]
  /\ UNCHANGED <<time, timer_counter, timer_heap, hstate, active, timer_cb,
                 timeout, repeat, start_id, pc, cur, log>>

\* uv__update_time(): the loop's clock moves forward between iterations.
UpdateTime ==
  /\ pc = "idle"
  /\ \E t \in U64 : t > time /\ time' = t
  /\ last' = NoCall
  /\ UNCHANGED <<timer_counter, timer_heap, hstate, active, timer_cb, timeout,
                 repeat, start_id, pc, cur, log>>

\* The loop enters uv__run_timers.
RunTimersBegin ==
  /\ pc = "idle"
  /\ pc' = "loop"
  /\ log' = <<>>
  /\ last' = NoCall
  /\ UNCHANGED <<time, timer_counter, timer_heap, hstate, active, timer_cb,
                 timeout, repeat, start_id, cur>>

\* An iteration that breaks out of the for (;;): uv__run_timers returns.
RunTimersReturn ==
  /\ pc = "loop"
  /\ RunTimersDue(St) = NoNode
  /\ pc' = "idle"
  /\ log' = <<>>
  /\ last' = NoCall
  /\ UNCHANGED <<time, timer_counter, timer_heap, hstate, active, timer_cb,
                 timeout, repeat, start_id, cur>>

\* An iteration that fires: stop, again, then the callback is entered.
\* logged: the run keeps the history of the callbacks it fired (SpecOrder).
RunTimersFire(logged) ==
  /\ pc = "loop"
  /\ RunTimersDue(St) # NoNode
  /\ LET h == RunTimersDue(St)
     IN  /\ Set(RunTimersRearm(St, h))
         /\ cur' = h
         /\ log' = IF logged /\ Len(log) < MaxLog
                   THEN Append(log, [h |-> h, timeout |-> timeout[h],
                                     start_id |-> start_id[h]])
                   ELSE log
  /\ pc' = "callback"
  /\ last' = NoCall

\* handle->timer_cb(handle) returns to the for (;;).
CallbackReturn ==
  /\ pc = "callback"
  /\ pc' = "loop"
  /\ cur' = NoNode
  /\ last' = NoCall
  /\ UNCHANGED <<time, timer_counter, timer_heap, hstate, active, timer_cb,
                 timeout, repeat, start_id, log>>

Init ==
  /\ time = 0
  /\ timer_counter = 0
  /\ timer_heap = EmptyBag
  /\ hstate = [h \in Handles |-> "uninit"]
  /\ active = [h \in Handles |-> FALSE]
  /\ timer_cb = [h \in Handles |-> NULL]
  /\ timeout = [h \in Handles |-> 0]
  /\ repeat = [h \in Handles |-> 0]
  /\ start_id = [h \in Handles |-> 0]
  /\ pc = "idle"
  /\ cur = NoNode
  /\ log = <<>>
  /\ last = NoCall

\* Spec and SpecOrder stop starting timers at MaxCounter starts, before the
\* counter wraps: a step at the bound is one that starts no timer.
Bounded == timer_counter < MaxCounter /\ timer_counter < UINT64_MAX

Capped == Bounded \/ timer_counter' = timer_counter

Next ==
  \/ \E h \in Handles2 : TimerInit(h)
  \/ \E h \in Handles2, a \in StartArgs : TimerStart(h, a.cb, a.t, a.r) /\ Capped
  \/ \E h \in Handles2 : TimerStop(h)
  \/ \E h \in Handles2 : TimerAgain(h) /\ Capped
  \/ \E h \in Handles2, r \in Repeats : TimerSetRepeat(h, r)
  \/ \E h \in Handles2 : TimerClose(h)
  \/ NextTimeout
  \/ UpdateTime
  \/ RunTimersBegin
  \/ RunTimersReturn
  \/ RunTimersFire(FALSE) /\ Capped
  \/ CallbackReturn

Spec == Init /\ [][Next]_vars

\* ------------------------------------------------------------------ SpecOrder

\* The callbacks make no API call: the program starts and stops its timers
\* between the runs of uv__run_timers only, and every handle is initialised.
InitOrder ==
  /\ time = 0
  /\ timer_counter = 0
  /\ timer_heap = EmptyBag
  /\ hstate = [h \in Handles |-> "open"]
  /\ active = [h \in Handles |-> FALSE]
  /\ timer_cb = [h \in Handles |-> NULL]
  /\ timeout = [h \in Handles |-> 0]
  /\ repeat = [h \in Handles |-> 0]
  /\ start_id = [h \in Handles |-> 0]
  /\ pc = "idle"
  /\ cur = NoNode
  /\ log = <<>>
  /\ last = NoCall

OrderStart(h, cb, t, r) ==
  /\ pc = "idle"
  /\ Set(uv_timer_start(St, h, cb, t, r).st)
  /\ UNCHANGED <<pc, cur, log, last>>

OrderStop(h) ==
  /\ pc = "idle"
  /\ Set(uv_timer_stop(St, h).st)
  /\ UNCHANGED <<pc, cur, log, last>>

NextOrder ==
  \/ \E h \in Handles, cb \in Callbacks, t \in Timeouts, r \in Repeats :
       OrderStart(h, cb, t, r) /\ Capped
  \/ \E h \in Handles : OrderStop(h)
  \/ UpdateTime
  \/ RunTimersBegin
  \/ RunTimersReturn
  \/ RunTimersFire(TRUE) /\ Capped
  \/ CallbackReturn

SpecOrder == InitOrder /\ [][NextOrder]_vars

\* ------------------------------------------------------------------ SpecReentrant

\* Two timers whose callbacks start and stop timers; the run keeps the history
\* of the callbacks it fired and of the calls those callbacks made.
\* due: the call concerns an armed timer whose deadline is not after loop->time.
CbStart(h, cb, t, r) ==
  /\ pc = "callback"
  /\ LET res == uv_timer_start(St, h, cb, t, r)
     IN  /\ Set(res.st)
         /\ log' = IF Len(log) < MaxLog
                   THEN Append(log, [h |-> h, op |-> "start",
                                     due |-> res.st.timeout[h] <= time])
                   ELSE log
  /\ UNCHANGED <<pc, cur, last>>

CbStop(h) ==
  /\ pc = "callback"
  /\ Set(uv_timer_stop(St, h).st)
  /\ log' = IF Len(log) < MaxLog
            THEN Append(log, [h |-> h, op |-> "stop",
                              due |-> active[h] /\ timeout[h] <= time])
            ELSE log
  /\ UNCHANGED <<pc, cur, last>>

\* The timeouts the programs of SpecReentrant and SpecFair pass: due now, due later.
ShortTimeouts == {0, 1}

NextReentrant ==
  \/ \E h \in Handles2, cb \in Callbacks, t \in ShortTimeouts, r \in Repeats :
       OrderStart(h, cb, t, r) /\ Capped
  \/ \E h \in Handles2 : OrderStop(h)
  \/ \E h \in Handles2, cb \in Callbacks, t \in ShortTimeouts, r \in Repeats :
       CbStart(h, cb, t, r) /\ Capped
  \/ \E h \in Handles2 : CbStop(h)
  \/ UpdateTime
  \/ RunTimersBegin
  \/ RunTimersReturn
  \/ RunTimersFire(TRUE) /\ Capped
  \/ CallbackReturn

SpecReentrant == InitOrder /\ [][NextReentrant]_vars

\* ------------------------------------------------------------------ SpecRepeat

\* The repeat intervals a program passes to uv_timer_set_repeat: none of them is
\* the nonzero interval it passes to uv_timer_start.
SetRepeats == {0, 2}

\* Two timers started and stopped between the runs of uv__run_timers, whose
\* repeat is read and written from anywhere, callbacks included.
NextRepeat ==
  \/ \E h \in Handles2 : pc = "idle" /\ TimerInit(h)
  \/ \E h \in Handles2, a \in StartArgs :
       pc = "idle" /\ TimerStart(h, a.cb, a.t, a.r) /\ Capped
  \/ \E h \in Handles2 : pc = "idle" /\ TimerStop(h)
  \/ \E h \in Handles2, r \in SetRepeats : TimerSetRepeat(h, r)
  \/ \E h \in Handles2 : TimerGetRepeat(h)
  \/ UpdateTime
  \/ RunTimersBegin
  \/ RunTimersReturn
  \/ RunTimersFire(FALSE) /\ Capped
  \/ CallbackReturn

SpecRepeat == Init /\ [][NextRepeat]_vars

\* ------------------------------------------------------------------ SpecFair

\* Two timers started and stopped from anywhere, with no bound on the starts
\* (the counter wraps as in the code) and no record of the calls.
AnyStart(h, cb, t, r) ==
  /\ pc \in {"idle", "callback"}
  /\ Set(uv_timer_start(St, h, cb, t, r).st)
  /\ UNCHANGED <<pc, cur, log, last>>

AnyStop(h) ==
  /\ pc \in {"idle", "callback"}
  /\ Set(uv_timer_stop(St, h).st)
  /\ UNCHANGED <<pc, cur, log, last>>

NextFair ==
  \/ \E h \in Handles2, cb \in Callbacks, t \in ShortTimeouts, r \in Repeats :
       AnyStart(h, cb, t, r)
  \/ \E h \in Handles2 : AnyStop(h)
  \/ UpdateTime
  \/ RunTimersBegin
  \/ RunTimersReturn
  \/ RunTimersFire(FALSE)
  \/ CallbackReturn

\* The loop goes on: every iteration updates the clock, which advances while it
\* can, and calls uv__run_timers, which runs to its next step without
\* suspension; callbacks return.
SpecFair ==
  /\ InitOrder
  /\ [][NextFair]_vars
  /\ SF_vars(UpdateTime)
  /\ SF_vars(RunTimersBegin)
  /\ WF_vars(RunTimersReturn)
  /\ WF_vars(RunTimersFire(FALSE))
  /\ WF_vars(CallbackReturn)

\* ------------------------------------------------------------------ LiveSpec

\* uv__run_timers runs to its next step without suspension and a callback
\* returns; the program and the clock are free.
LiveNext ==
  \/ \E h \in Handles1 : TimerInit(h)
  \/ \E h \in Handles1, a \in StartArgs : TimerStart(h, a.cb, a.t, a.r)
  \/ \E h \in Handles1 : TimerStop(h)
  \/ \E h \in Handles1 : TimerAgain(h)
  \/ UpdateTime
  \/ RunTimersBegin
  \/ RunTimersReturn
  \/ RunTimersFire(FALSE)
  \/ CallbackReturn

LiveSpec ==
  /\ Init
  /\ [][LiveNext]_vars
  /\ WF_vars(RunTimersReturn)
  /\ WF_vars(RunTimersFire(FALSE))
  /\ WF_vars(CallbackReturn)

\* ------------------------------------------------------------------ properties

ActiveSet == {h \in Handles : active[h]}

\* C1: in every reachable state the timer heap holds exactly the handles whose
\* active flag is set, each of them exactly once.
HeapIsActiveSet ==
  /\ BagToSet(timer_heap) \subseteq Handles
  /\ \A h \in Handles : CopiesIn(h, timer_heap) = (IF active[h] THEN 1 ELSE 0)

\* A callback stopped a timer: one handle is armed, another was armed and is not.
HeapIsActiveSetWitness ==
  /\ pc = "callback"
  /\ last.op = "stop"
  /\ \E h, g \in Handles :
       /\ active[h] /\ CopiesIn(h, timer_heap) = 1
       /\ ~active[g] /\ timer_cb[g] # NULL /\ hstate[g] = "open"

KeyLess(a, b) ==
  \/ a.timeout < b.timeout
  \/ a.timeout = b.timeout /\ a.start_id < b.start_id

\* C2: when the callbacks start and stop no timers, one run of uv__run_timers
\* fires its timers in ascending (timeout, start_id) order: the smaller deadline
\* first and, among equal deadlines, the timer started earlier first.
FiresInOrder ==
  \A i \in 1..(Len(log) - 1) : KeyLess(log[i], log[i + 1])

\* A, B, C started in this order, A and C with one deadline and B with an earlier
\* one, fired in the order B, A, C.
FiresInOrderWitness ==
  /\ Len(log) = 3
  /\ log[1].h = "B" /\ log[2].h = "A" /\ log[3].h = "C"
  /\ log[1].timeout < log[2].timeout
  /\ log[2].timeout = log[3].timeout
  /\ log[2].start_id < log[1].start_id
  /\ log[1].start_id < log[3].start_id

\* uv__run_timers enters the callback of cur'.
Fires == pc = "loop" /\ pc' = "callback"

\* C3: uv__run_timers fires a timer only if, when it is selected, it is active
\* and its deadline is not after loop->time.
FiresOnlyDue ==
  [][Fires => (active[cur'] /\ hstate[cur'] = "open" /\ timeout[cur'] <= time)]_vars

\* A timer was fired while another one, armed and not yet due, was left alone.
FiresOnlyDueWitness ==
  /\ pc = "callback"
  /\ last = NoCall
  /\ \E g \in Handles \ {cur} : active[g] /\ timeout[g] > time

\* C4: every call of uv__run_timers returns after finitely many callbacks,
\* whatever the callbacks start, stop or restart.
RunTimersTerminates == (pc = "loop") ~> (pc = "idle")

\* The fields of the loop and of the handles that the timer code writes.
core == <<time, timer_counter, timer_heap, hstate, active, timer_cb, timeout,
          repeat, start_id>>

MinU64(a, b) == IF a < b THEN a ELSE b

\* C5: uv_timer_start on a closing handle or with a NULL callback returns
\* UV_EINVAL and changes neither the heap, nor any field of any handle, nor
\* loop->timer_counter.
StartInvalidChangesNothing ==
  [][last'.op = "start" => \A h \in Handles2, a \in StartArgs :
       ((hstate[h] = "closing" \/ a.cb = NULL) /\ TimerStart(h, a.cb, a.t, a.r))
         => (last'.ret = UV_EINVAL /\ UNCHANGED core)]_vars

\* uv_timer_start failed on an armed timer, which is still armed.
StartInvalidWitness ==
  /\ last.op = "start"
  /\ last.ret = UV_EINVAL
  /\ last.was
  /\ \E h \in Handles : active[h] /\ CopiesIn(h, timer_heap) = 1 /\ repeat[h] = 0

\* The loop and its handles after the step.
StNext == [time |-> time', timer_counter |-> timer_counter',
           timer_heap |-> timer_heap', hstate |-> hstate', active |-> active',
           timer_cb |-> timer_cb', timeout |-> timeout', repeat |-> repeat',
           start_id |-> start_id']

\* C6: uv_timer_start on an active handle leaves the state that uv_timer_stop
\* followed by uv_timer_start with the same arguments leaves: the handle is in
\* the heap once, with the deadline, repeat, callback and start_id of the new
\* start.
RestartIsStopThenStart ==
  [][last'.was => \A h \in Handles2, a \in StartArgs :
       (TimerStart(h, a.cb, a.t, a.r) /\ active[h] /\ a.cb # NULL)
         => /\ StNext = uv_timer_start(uv_timer_stop(St, h).st, h, a.cb, a.t, a.r).st
            /\ last'.ret = 0
            /\ CopiesIn(h, timer_heap') = 1
            /\ active'[h]
            /\ timer_cb'[h] = a.cb
            /\ repeat'[h] = a.r
            /\ timeout'[h] = MinU64(time + a.t, UINT64_MAX)
            /\ start_id'[h] = timer_counter
            /\ timer_counter' = timer_counter + 1]_vars

\* An armed timer was started again and carries the newest start_id.
RestartWitness ==
  /\ last.op = "start"
  /\ last.ret = 0
  /\ last.was
  /\ \E h \in Handles :
       /\ active[h] /\ CopiesIn(h, timer_heap) = 1
       /\ start_id[h] = timer_counter - 1
       /\ start_id[h] > 0

\* C7: after a successful uv_timer_start the deadline is loop->time + timeout,
\* or (uint64_t) -1 when that sum does not fit: it is neither before loop->time
\* nor smaller than the timeout.
DeadlineSaturates ==
  [][last'.op = "start" /\ last'.ret = 0 => \A h \in Handles2, a \in StartArgs :
       TimerStart(h, a.cb, a.t, a.r)
         => /\ timeout'[h] = MinU64(time + a.t, UINT64_MAX)
            /\ timeout'[h] >= time
            /\ timeout'[h] >= a.t
            /\ (a.t = UINT64_MAX /\ time > 0 => timeout'[h] = UINT64_MAX)]_vars

\* A timer started at time 1 with a timeout whose sum with the time wraps: its
\* deadline is (uint64_t) -1.
DeadlineSaturatesWitness ==
  /\ last.op = "start"
  /\ last.ret = 0
  /\ time = 1
  /\ \E h \in Handles :
       /\ active[h]
       /\ start_id[h] = timer_counter - 1
       /\ timeout[h] = UINT64_MAX

\* The active timer that is first in (timeout, start_id) order.
MinActive ==
  CHOOSE h \in ActiveSet :
    \A g \in ActiveSet \ {h} :
      KeyLess([timeout |-> timeout[h], start_id |-> start_id[h]],
              [timeout |-> timeout[g], start_id |-> start_id[g]])

\* C8: uv__next_timeout returns -1 exactly when no timer is active, 0 when the
\* first active timer is due, and otherwise its distance from loop->time, at
\* most INT_MAX and positive.
NextTimeoutValue ==
  last.op = "next_timeout" =>
    /\ (last.ret = -1) <=> (ActiveSet = {})
    /\ ActiveSet # {} =>
         IF timeout[MinActive] <= time THEN last.ret = 0
         ELSE /\ last.ret = MinU64(timeout[MinActive] - time, INT_MAX)
              /\ last.ret > 0

\* One timer due one tick from now: uv__next_timeout returned 1.
NextTimeoutWitness ==
  /\ last.op = "next_timeout"
  /\ last.ret = 1
  /\ \E h \in Handles : ActiveSet = {h} /\ timeout[h] = time + 1

\* C9: when uv__run_timers fires a timer with a nonzero repeat, the timer is
\* active again with deadline loop->time + repeat (saturating), counted from the
\* loop's time and not from the old deadline, and with a fresh start_id.
RepeatRearms ==
  [][(Fires /\ repeat[cur'] # 0)
       => /\ active'[cur']
          /\ CopiesIn(cur', timer_heap') = 1
          /\ timeout'[cur'] = MinU64(time + repeat[cur'], UINT64_MAX)
          /\ repeat'[cur'] = repeat[cur']
          /\ start_id'[cur'] = timer_counter
          /\ timer_counter' = timer_counter + 1]_vars

\* A repeating timer was fired at time 2 and is due again at 2 + repeat.
RepeatRearmsWitness ==
  /\ pc = "callback"
  /\ last = NoCall
  /\ time = 2
  /\ active[cur]
  /\ repeat[cur] = 1
  /\ timeout[cur] = 3
  /\ start_id[cur] = timer_counter - 1

\* C10: a one-shot timer that uv__run_timers fired, and that its callback did
\* not restart, is inactive and out of the heap, and uv_timer_again on it
\* returns UV_EINVAL and leaves it so.
OneShotStaysStopped ==
  /\ [](pc = "callback" /\ last = NoCall /\ repeat[cur] = 0
          => ~active[cur] /\ CopiesIn(cur, timer_heap) = 0)
  /\ [][(pc = "callback" /\ last = NoCall /\ repeat[cur] = 0 /\ TimerAgain(cur))
          => (last'.ret = UV_EINVAL /\ ~active'[cur] /\ UNCHANGED core)]_vars

\* The callback of a fired one-shot timer called uv_timer_again on it, in vain:
\* every other handle is repeating, so the failed call was on the fired timer.
OneShotWitness ==
  /\ pc = "callback"
  /\ last.op = "again"
  /\ last.ret = UV_EINVAL
  /\ ~active[cur]
  /\ timer_cb[cur] # NULL
  /\ repeat[cur] = 0
  /\ \A g \in Handles2 \ {cur} : timer_cb[g] # NULL /\ repeat[g] # 0

\* C11: uv_timer_again returns UV_EINVAL exactly when the handle's callback is
\* NULL or its repeat is 0, and then changes neither the heap, nor any field of
\* any handle, nor loop->timer_counter: an armed one-shot timer stays armed.
AgainInvalidChangesNothing ==
  [][last'.op = "again" => \A h \in Handles2 :
       TimerAgain(h)
         => /\ (last'.ret = UV_EINVAL) <=> (timer_cb[h] = NULL \/ repeat[h] = 0)
            /\ (last'.ret # UV_EINVAL) => (last'.ret = 0)
            /\ (last'.ret = UV_EINVAL) => UNCHANGED core]_vars

\* uv_timer_again failed on an armed one-shot timer (every handle is one),
\* which is still in the heap with a deadline ahead.
AgainInvalidWitness ==
  /\ last.op = "again"
  /\ last.ret = UV_EINVAL
  /\ \A h \in Handles2 :
       /\ active[h] /\ CopiesIn(h, timer_heap) = 1
       /\ repeat[h] = 0
       /\ timeout[h] > time

\* C12: whenever the handle has a callback and a nonzero repeat,
\* uv_timer_again(handle) ends in the state, and returns the value, of
\* uv_timer_start(handle, handle->timer_cb, handle->repeat, handle->repeat),
\* a closing handle included.
AgainIsStart ==
  [][last'.op = "again" => \A h \in Handles2 :
       (TimerAgain(h) /\ timer_cb[h] # NULL /\ repeat[h] # 0)
         => LET res == uv_timer_start(St, h, timer_cb[h], repeat[h], repeat[h])
            IN  StNext = res.st /\ last'.ret = res.ret]_vars

\* C13: a closing handle is inactive and out of the heap, whether it was ever
\* started or not, and stays so whatever uv_timer_start or uv_timer_again is
\* called on it; uv_close changes no other timer; uv__run_timers never enters
\* the callback of a closing handle.
ClosedStaysOut ==
  /\ [](\A h \in Handles :
          hstate[h] = "closing" => ~active[h] /\ CopiesIn(h, timer_heap) = 0)
  /\ [][last'.op = "close" => \A h \in Handles2 :
          TimerClose(h)
            => /\ timer_heap' = timer_heap (-) SetToBag({h})
               /\ \A g \in Handles \ {h} :
                    /\ active'[g] = active[g] /\ hstate'[g] = hstate[g]
                    /\ timeout'[g] = timeout[g] /\ start_id'[g] = start_id[g]
                    /\ repeat'[g] = repeat[g] /\ timer_cb'[g] = timer_cb[g]
               /\ timer_counter' = timer_counter /\ time' = time]_vars
  /\ [][Fires => hstate[cur'] # "closing" /\ hstate'[cur'] # "closing"]_vars

\* Every handle was started as a repeating timer and then closed, and
\* uv_timer_again was called on one of them: none is back in the heap.
ClosedStaysOutWitness ==
  /\ last.op = "again"
  /\ last.ret = 0
  /\ timer_heap = EmptyBag
  /\ \A h \in Handles2 :
       hstate[h] = "closing" /\ timer_cb[h] # NULL /\ repeat[h] # 0 /\ ~active[h]

\* C14: uv_timer_stop returns 0 in every state, and on a handle that is not
\* active it changes neither the heap, nor any field of any handle, nor
\* loop->timer_counter.
StopInactiveIsNoop ==
  [][last'.op = "stop" =>
       /\ last'.ret = 0
       /\ \A h \in Handles2 :
            (TimerStop(h) /\ ~active[h]) => UNCHANGED core]_vars

\* uv_timer_stop was called on a handle that was never started, while the other
\* handle's timer is armed: that timer is still in the heap.
StopInactiveWitness ==
  /\ last.op = "stop"
  /\ last.ret = 0
  /\ \E h, g \in Handles2 :
       /\ hstate[h] = "open" /\ timer_cb[h] = NULL /\ ~active[h]
       /\ active[g] /\ CopiesIn(g, timer_heap) = 1

\* The entries of the run's history: a fired callback, a call a callback made.
IsFire(e) == "start_id" \in DOMAIN e

IsCall(e, op, h) == "op" \in DOMAIN e /\ e.op = op /\ e.h = h

\* C15: uv__run_timers sees the calls its callbacks make.  Each iteration fires
\* the (timeout, start_id) minimum of the timers active at that moment; a timer
\* that a callback of this run stopped, and none restarted, is not fired (as
\* far as the history, which keeps MaxLog entries, is complete); and
\* the run does not return while an active timer is due, so a timer a callback
\* started with a deadline not after loop->time is fired (or stopped) before the
\* run returns.
FiresHeapMinNow ==
  [][/\ Fires
          => /\ cur' \in ActiveSet
             /\ cur' = MinActive
             /\ timeout[cur'] <= time
             /\ Len(log) < MaxLog
                  => \A i \in 1..Len(log) :
                       IsCall(log[i], "stop", cur')
                         => \E j \in (i + 1)..Len(log) :
                              IsCall(log[j], "start", cur')
     /\ (pc = "loop" /\ pc' = "idle")
          => \A h \in ActiveSet : timeout[h] > time]_vars

\* The callback of A started B with a deadline not after loop->time, and the
\* same run fired B next.
FiresHeapMinNowWitness ==
  /\ pc = "callback"
  /\ cur = "B"
  /\ Len(log) = 3
  /\ IsFire(log[1]) /\ log[1].h = "A"
  /\ IsCall(log[2], "start", "B") /\ log[2].due
  /\ IsFire(log[3]) /\ log[3].h = "B"

\* C16: uv__run_timers stops the expired timer, tries to re-arm it and only then
\* enters its callback, once per expiry.  When the callback of a repeating timer
\* is entered the timer is already back in the heap with its next deadline, and
\* uv_timer_stop called by that callback takes it out; when the callback of a
\* one-shot timer is entered the timer is inactive; the occurrence that expired
\* is gone from the heap in both cases.
StopRearmThenCallback ==
  /\ [](pc = "callback" /\ last = NoCall
          => IF repeat[cur] # 0
             THEN /\ active[cur] /\ CopiesIn(cur, timer_heap) = 1
                  /\ timeout[cur] = MinU64(time + repeat[cur], UINT64_MAX)
                  /\ start_id[cur] = timer_counter - 1
             ELSE ~active[cur] /\ CopiesIn(cur, timer_heap) = 0)
  /\ [][Fires => /\ cur = NoNode /\ cur' \in Handles
                 /\ ~active'[cur'] \/ start_id'[cur'] > start_id[cur']]_vars
  /\ [][(pc = "callback" /\ last = NoCall /\ repeat[cur] # 0 /\ TimerStop(cur))
          => /\ ~active'[cur]
             /\ CopiesIn(cur, timer_heap') = 0
             /\ timer_heap' = timer_heap (-) SetToBag({cur})]_vars

\* The callback of a repeating timer, the only handle in use, called
\* uv_timer_stop: the occurrence scheduled before the callback is cancelled.
StopRearmThenCallbackWitness ==
  /\ pc = "callback"
  /\ last.op = "stop"
  /\ timer_cb[cur] # NULL
  /\ repeat[cur] # 0
  /\ ~active[cur]
  /\ timer_heap = EmptyBag
  /\ timeout[cur] > time
  /\ \A g \in Handles2 \ {cur} : hstate[g] = "uninit"

\* The handles uv_timer_start was ever called on with success.
Started == {h \in Handles : timer_cb[h] # NULL}

\* C17: below the wrap of the counter, every start that succeeds (through
\* uv_timer_start, uv_timer_again or the re-arm of uv__run_timers) gives the
\* handle start_id = loop->timer_counter and adds 1 to the counter, and nothing
\* else changes the counter; so the start_ids of the active timers are pairwise
\* distinct, a timer just started has a larger start_id than every timer
\* started before, and timer_less_than is a strict total order on the heap.
StartIdsUnique ==
  /\ [](/\ \A h \in Started : start_id[h] < timer_counter
        /\ \A h, g \in ActiveSet : h # g => start_id[h] # start_id[g]
        /\ \A a, b \in HeapNodes(St) :
             /\ ~timer_less_than(St, a, a)
             /\ a # b => (timer_less_than(St, a, b) <=> ~timer_less_than(St, b, a))
             /\ \A c \in HeapNodes(St) :
                  timer_less_than(St, a, b) /\ timer_less_than(St, b, c)
                    => timer_less_than(St, a, c))
  /\ [][timer_counter' # timer_counter
          => /\ timer_counter' = timer_counter + 1
             /\ (last'.op \in {"start", "again"} /\ last'.ret = 0) \/ Fires
             /\ \E h \in Handles2 :
                  /\ active'[h] /\ start_id'[h] = timer_counter
                  /\ \A g \in Started : start_id[g] < start_id'[h]
                  /\ \A g \in Handles \ {h} : start_id'[g] = start_id[g]]_vars
  /\ [][(\/ last'.op = "start" /\ last'.ret = 0
         \/ Fires /\ repeat[cur'] # 0
         \/ /\ last'.op = "again" /\ last'.ret = 0
            /\ \E h \in Handles2 : TimerAgain(h) /\ hstate[h] # "closing")
          => timer_counter' = timer_counter + 1]_vars

\* Two armed timers with one deadline: the one started again last carries the
\* larger start_id, the newest, and comes second in the comparator's order.
StartIdsUniqueWitness ==
  /\ last.op = "start" /\ last.ret = 0 /\ last.was
  /\ \E h, g \in ActiveSet :
       /\ h # g
       /\ timeout[h] = timeout[g]
       /\ start_id[h] = timer_counter - 1
       /\ start_id[g] < start_id[h]
       /\ timer_less_than(St, g, h) /\ ~timer_less_than(St, h, g)
       /\ timer_counter = MaxCounter

\* C18: uv_timer_set_repeat writes handle->repeat and nothing else, and
\* uv_timer_get_repeat returns handle->repeat, which only uv_timer_init,
\* uv_timer_start and uv_timer_set_repeat write.  The value counts when the
\* timer is next re-armed: a timer is re-armed by uv__run_timers exactly when
\* its repeat is nonzero at the time it fires, with that repeat as the interval,
\* so uv_timer_set_repeat(handle, 0) in the callback of a repeating timer leaves
\* the occurrence already scheduled in the heap.
RepeatCountsAtRearm ==
  /\ [][last'.op = "set_repeat" => \A h \in Handles2, r \in SetRepeats :
          TimerSetRepeat(h, r)
            => /\ repeat' = [repeat EXCEPT ![h] = r]
               /\ UNCHANGED <<time, timer_counter, timer_heap, hstate, active,
                              timer_cb, timeout, start_id>>
               /\ active[h] => CopiesIn(h, timer_heap') = 1]_vars
  /\ [][last'.op = "get_repeat" =>
          /\ UNCHANGED core
          /\ \A h \in Handles2 : TimerGetRepeat(h) => last'.ret = repeat[h]]_vars
  /\ [][repeat' # repeat =>
          \/ last'.op = "set_repeat"
          \/ /\ last'.op = "start" /\ last'.ret = 0
             /\ \E h \in Handles2, a \in StartArgs :
                  TimerStart(h, a.cb, a.t, a.r) /\ repeat'[h] = a.r]_vars
  /\ [][last'.op = "init" => \A h \in Handles2 : TimerInit(h) => repeat'[h] = 0]_vars
  /\ [][Fires => /\ active'[cur'] <=> repeat[cur'] # 0
                 /\ repeat[cur'] # 0
                      => timeout'[cur'] = MinU64(time + repeat[cur'], UINT64_MAX)]_vars

\* The callback of a repeating timer, the only handle in use, set its repeat
\* to 0: the occurrence scheduled before the callback is still in the heap.
RepeatCountsAtRearmWitness ==
  /\ pc = "callback"
  /\ last.op = "set_repeat"
  /\ repeat[cur] = 0
  /\ active[cur]
  /\ CopiesIn(cur, timer_heap) = 1
  /\ timeout[cur] = time + 1
  /\ \A g \in Handles2 \ {cur} : hstate[g] = "uninit"

\* C19: uv__next_timeout and uv__run_timers agree.  uv__next_timeout returns 0
\* exactly when uv__run_timers, entered in the same state, fires a timer (some
\* active timer is due); and in the state uv__run_timers returns in,
\* uv__next_timeout is not 0.
NextTimeoutAgreesWithRun ==
  /\ [](last.op = "next_timeout"
          => /\ (last.ret = 0) <=> (RunTimersDue(St) # NoNode)
             /\ (last.ret = 0) <=> (\E h \in ActiveSet : timeout[h] <= time))
  /\ [][(pc = "idle" /\ pc' = "loop")
          => ((uv__next_timeout(St) = 0) <=> (RunTimersDue(StNext) # NoNode))]_vars
  /\ [][(pc = "loop" /\ pc' = "idle")
          => /\ UNCHANGED core
             /\ uv__next_timeout(StNext) # 0
             /\ \A h \in ActiveSet : timeout[h] > time]_vars

\* uv__next_timeout returned 0 for a timer whose deadline is loop->time exactly,
\* after the clock moved.
NextTimeoutAgreesWitness ==
  /\ last.op = "next_timeout"
  /\ last.ret = 0
  /\ time > 0
  /\ \E h \in ActiveSet : timeout[h] = time /\ RunTimersDue(St) = h

\* C20: no starvation.  When the loop keeps iterating (uv__run_timers returns
\* again and again and the clock advances), a timer armed with a deadline below
\* (uint64_t) -1 is eventually fired, unless it is stopped or started again
\* first, whatever other timers, repeating or of the same deadline, are armed:
\* no start of a timer (handle h, start_id k) stays armed and unfired for ever.
NoStarvation ==
  \A h \in Handles2, k \in U64 :
    ([]<>(pc = "idle"))
      => []<>(\/ pc = "callback" /\ cur = h
              \/ ~(active[h] /\ start_id[h] = k /\ timeout[h] < UINT64_MAX))

\* A one-shot timer was fired while a repeating timer of the same deadline,
\* started after it, is armed.
NoStarvationWitness ==
  /\ pc = "callback"
  /\ repeat[cur] = 0
  /\ timeout[cur] < UINT64_MAX
  /\ \E g \in ActiveSet \ {cur} :
       /\ repeat[g] # 0
       /\ timeout[g] = timeout[cur]
       /\ start_id[g] > start_id[cur]

====
